---- MODULE Spec2Model ----
(***************************************************************************)
(* Model of bsdiff_jni.cc: the JNI wrapper that maps two files (or copies  *)
(* two byte arrays), runs bsdiff on them and returns the patch.            *)
(*                                                                         *)
(* Each calling thread i runs one invocation; pc[i] is its position in the *)
(* code.  The descriptor table and the mapping table of the process are    *)
(* shared by all threads.  Every system call, JNI call and the encoder are *)
(* steps whose result is chosen nondeterministically among the results the *)
(* platform can give.                                                      *)
(***************************************************************************)
EXTENDS Integers, Sequences, FiniteSets, TLC

(* ---------------- bounds of the model ---------------- *)
\* number of calling threads modelled
NumInv == 2
\* longest file / blob content modelled (bytes)
MaxLen == 2
\* byte values are 0..MaxByte
MaxByte == 1

(* ---------------- program and platform constants ---------------- *)
\* width of size_t in bits (scaled down; SIZE_MAX = 2^SizeBits - 1)
SizeBits == 2
\* std::numeric_limits<size_t>::max()
SIZE_MAX == (2 ^ SizeBits) - 1
\* /* min_length= */ 16 passed to bsdiff::bsdiff
MinLength == 16
\* nullptr
NULL == 0
\* value of an uninitialised size_t local (never read by the code)
Uninit == -1
\* value of fd when open() failed
BadFd == -1
\* lowest descriptor number open() hands out (0,1,2 are the standard streams)
FirstFd == 3

Invs == 1..NumInv
Files == {"old", "new"}
Byte == 0..MaxByte

\* contents of a file of at most n bytes
RECURSIVE SeqsUpTo(_)
SeqsUpTo(n) ==
    IF n = 0 THEN {<<>>}
    ELSE LET S == SeqsUpTo(n - 1)
         IN  S \cup {Append(s, b) : s \in {t \in S : Len(t) = n - 1}, b \in Byte}

\* a file whose size does not fit size_t; its content is not modelled
Huge == <<-1>>
SmallContents == SeqsUpTo(MaxLen)
Contents == SmallContents \cup {Huge}

\* st.st_size as fstat reports it for a file
StSize(c) == IF c = Huge THEN SIZE_MAX + 1 ELSE Len(c)

(* ---------------- exceptions ---------------- *)
NoException == [phase |-> "None", file |-> "-"]
Msg(phase, f) == [phase |-> phase, file |-> f]

\* what a buffer read yields when the region is not mapped / not allocated
Garbage == <<-2>>

VARIABLES
    pc,        \* pc[i]: position of thread i in the code
    entry,     \* entry[i]: "File" (nativeGeneratePatchFile) or "Data"
    input,     \* input[i][f]: content of the file at the path / of the jbyteArray
    utf,       \* utf[i][f]: state of the GetStringUTFChars buffer of the path
    cur,       \* cur[i]: the file the running MapFile call works on
    fd,        \* fd[i]: MapFile's local fd
    st,        \* st[i]: MapFile's local st.st_size
    mret,      \* mret[i]: MapFile's local ret (mmap result)
    buf,       \* buf[i][f]: old_buf / new_buf
    size,      \* size[i][f]: old_size / new_size
    fdTable,   \* open descriptors of the process: records [fd, owner, file]
    mappings,  \* live mappings of the process: records [addr, len, owner, file, data]
    heap,      \* live unique_ptr buffers: records [addr, owner, file, data]
    patch,     \* patch[i]: the std::vector<uint8_t> patch of GeneratePatch
    rv,        \* rv[i]: bsdiff_return_value
    encArgs,   \* encArgs[i]: what bsdiff was called with (what it read)
    result,    \* result[i]: the jbyteArray the entry point returns
    pending,   \* pending[i]: the exception pending in thread i's JNIEnv
    trace      \* trace[i]: the calls thread i made, in order

vars == <<pc, entry, input, utf, cur, fd, st, mret, buf, size, fdTable,
          mappings, heap, patch, rv, encArgs, result, pending, trace>>

\* the locals of the shared OS tables
osVars == <<fdTable, mappings, heap>>
\* the locals of MapFile
mapVars == <<fd, st, mret>>
\* the locals of GeneratePatch
genVars == <<patch, rv, encArgs>>
\* the call's arguments
argVars == <<entry, input>>

Ev(op, f, ok) == [op |-> op, file |-> f, ok |-> ok]
Log(i, e) == trace' = [trace EXCEPT ![i] = Append(@, e)]
Log2(i, e1, e2) == trace' = [trace EXCEPT ![i] = Append(Append(@, e1), e2)]

NoResult == [kind |-> "unset", data |-> <<>>]
NullResult == [kind |-> "null", data |-> <<>>]
ByteArray(d) == [kind |-> "bytes", data |-> d]

\* the arguments of a bsdiff::bsdiff call: the bytes it finds at old_buf and
\* new_buf, the two sizes and min_length
NoEncArgs == [called |-> FALSE, old |-> <<>>, old_size |-> 0,
              new |-> <<>>, new_size |-> 0, min_length |-> 0]
EncArgs(o, os, n, ns, ml) == [called |-> TRUE, old |-> o, old_size |-> os,
                              new |-> n, new_size |-> ns, min_length |-> ml]

\* JNIEnv::ThrowNew with exception `cur_exc` pending.  The JNI specification
\* leaves calling ThrowNew (and FindClass) with an exception already pending
\* undefined: the VM may keep the pending exception or replace it.
ThrowNew(cur_exc, msg) ==
    IF cur_exc = NoException THEN {msg} ELSE {cur_exc, msg}

(* ---------------- the operating system ---------------- *)
usedFds == {e.fd : e \in fdTable}
\* open() returns the lowest descriptor number not in use
LowestFreeFd ==
    CHOOSE n \in FirstFd..(FirstFd + Cardinality(fdTable)) :
        /\ n \notin usedFds
        /\ \A k \in FirstFd..(n - 1) : k \in usedFds

usedAddrs == {m.addr : m \in mappings} \cup {h.addr : h \in heap}
\* the address mmap / operator new[] returns: the lowest one not in use
LowestFreeAddr ==
    CHOOSE a \in 1..(1 + Cardinality(usedAddrs)) :
        /\ a \notin usedAddrs
        /\ \A k \in 1..(a - 1) : k \in usedAddrs

\* the descriptor table after close(n).  On Linux close() releases the
\* descriptor also when it returns an error.
CloseLeaks(tbl, n) == tbl
Close(tbl, n) == {e \in tbl : e.fd # n}

\* the mapping table after munmap(addr, len)
MunmapLeaks(maps, addr, len) == maps
Munmap(maps, addr, len) == {m \in maps : ~(m.addr = addr /\ m.len = len)}

\* mmap(nullptr, len, PROT_READ, MAP_SHARED, fd, 0): the results it can give.
\* A mapping of length 0 always fails (EINVAL); any other may fail (ENOMEM...).
MmapResults(len) == IF len = 0 THEN {FALSE} ELSE {TRUE, FALSE}

\* what reading `len` bytes at `addr` yields
ReadBuf(addr, len) ==
    IF \E m \in mappings : m.addr = addr /\ m.len = len
    THEN (CHOOSE m \in mappings : m.addr = addr /\ m.len = len).data
    ELSE IF \E h \in heap : h.addr = addr /\ Len(h.data) = len
    THEN (CHOOSE h \in heap : h.addr = addr /\ Len(h.data) = len).data
    ELSE Garbage

\* the patch bsdiff writes through the Endsley patch writer for (old, new):
\* an opaque byte string that is a function of both inputs (the encoder is an
\* external library; only its determinism is modelled)
BsdiffOutput(o, n) == <<Len(o), Len(n)>> \o o \o n

Prefixes(s) == {SubSeq(s, 1, k) : k \in 0..Len(s)}

(* ---------------- initial states ---------------- *)
IdleInput == [f \in Files |-> <<>>]

\* the state when the threads of `active` call, thread i entering entry
\* point e[i] with the contents x[i]
InitWith(active, e, x) ==
    /\ pc = [i \in Invs |-> IF i \in active THEN "start" ELSE "idle"]
    /\ entry = [i \in Invs |-> IF i \in active THEN e[i] ELSE "File"]
    /\ input = [i \in Invs |-> IF i \in active THEN x[i] ELSE IdleInput]
    /\ utf = [i \in Invs |-> [f \in Files |-> "unset"]]
    /\ cur = [i \in Invs |-> "old"]
    /\ fd = [i \in Invs |-> BadFd]
    /\ st = [i \in Invs |-> Uninit]
    /\ mret = [i \in Invs |-> NULL]
    /\ buf = [i \in Invs |-> [f \in Files |-> NULL]]
    /\ size = [i \in Invs |-> [f \in Files |-> Uninit]]
    /\ fdTable = {}
    /\ mappings = {}
    /\ heap = {}
    /\ patch = [i \in Invs |-> <<>>]
    /\ rv = [i \in Invs |-> 0]
    /\ encArgs = [i \in Invs |-> NoEncArgs]
    /\ result = [i \in Invs |-> NoResult]
    /\ pending = [i \in Invs |-> NoException]
    /\ trace = [i \in Invs |-> <<>>]

InitFor(active) ==
    \E e \in [active -> {"File", "Data"}] :
        \E x \in [active -> [Files -> Contents]] :
            /\ \A i \in active : e[i] = "Data" =>
                   \A f \in Files : x[i][f] \in SmallContents
            /\ InitWith(active, e, x)

\* one thread calls the service
Init == InitFor({1})

(* ---------------- nativeGeneratePatchFile: arguments ---------------- *)
\* lines 123-124: GetStringUTFChars on both paths; each returns a buffer or
\* nullptr
GetStringUTFChars(i) ==
    /\ pc[i] = "start"
    /\ entry[i] = "File"
    /\ \E o \in {"held", "null"}, n \in {"held", "null"} :
         /\ utf' = [utf EXCEPT ![i] = [old |-> o, new |-> n]]
         /\ Log2(i, Ev("GetStringUTFChars", "old", o = "held"),
                    Ev("GetStringUTFChars", "new", n = "held"))
    /\ pc' = [pc EXCEPT ![i] = "check_args"]
    /\ UNCHANGED <<argVars, cur, mapVars, buf, size, osVars, genVars,
                   result, pending>>

\* line 126: old_file == nullptr || new_file == nullptr
ArgsMissingBoth(o, n) == o = "null" /\ n = "null"
ArgsMissing(o, n) == o = "null" \/ n = "null"

\* lines 126-131: throw and return nullptr when a path is missing
CheckArgs(i) ==
    /\ pc[i] = "check_args"
    /\ IF ArgsMissing(utf[i]["old"], utf[i]["new"])
       THEN /\ \E p \in ThrowNew(pending[i], Msg("ArgumentMissing", "-")) :
                 pending' = [pending EXCEPT ![i] = p]
            /\ Log(i, Ev("ThrowNew:ArgumentMissing", "-", TRUE))
            /\ result' = [result EXCEPT ![i] = NullResult]
            /\ pc' = [pc EXCEPT ![i] = "done"]
       ELSE /\ pc' = [pc EXCEPT ![i] = "open"]
            /\ UNCHANGED <<pending, trace, result>>
    /\ UNCHANGED <<argVars, utf, cur, mapVars, buf, size, osVars, genVars>>

(* ---------------- MapFile ---------------- *)
\* the second MapFile call is skipped once the first has failed
MapFileReturnShortCircuit(i, v) ==
    /\ buf' = [buf EXCEPT ![i][cur[i]] = v]
    /\ cur' = [cur EXCEPT ![i] = "new"]
    /\ pc' = [pc EXCEPT ![i] = IF cur[i] = "old" /\ v # NULL THEN "open"
                                ELSE "release_strings"]
\* a failed MapFile call is tried again instead of being returned
MapFileReturnRetry(i, v) ==
    IF v = NULL
    THEN /\ pc' = [pc EXCEPT ![i] = "open"]
         /\ UNCHANGED <<buf, cur>>
    ELSE /\ buf' = [buf EXCEPT ![i][cur[i]] = v]
         /\ cur' = [cur EXCEPT ![i] = "new"]
         /\ pc' = [pc EXCEPT ![i] = IF cur[i] = "old" THEN "open" ELSE "release_strings"]
\* old_buf / new_buf kept in storage shared by all threads (static variables)
MapFileReturnShared(i, v) ==
    /\ buf' = [j \in Invs |-> [buf[j] EXCEPT ![cur[i]] = v]]
    /\ cur' = [cur EXCEPT ![i] = "new"]
    /\ pc' = [pc EXCEPT ![i] = IF cur[i] = "old" THEN "open" ELSE "release_strings"]
\* MapFile returns v to line 135 (old) or 136 (new)
MapFileReturn(i, v) ==
    /\ buf' = [buf EXCEPT ![i][cur[i]] = v]
    /\ cur' = [cur EXCEPT ![i] = "new"]
    /\ pc' = [pc EXCEPT ![i] = IF cur[i] = "old" THEN "open" ELSE "release_strings"]

\* lines 38-45: open(filename, O_RDONLY)
Open(i) ==
    /\ pc[i] = "open"
    /\ LET f == cur[i] IN
       \/ /\ fd' = [fd EXCEPT ![i] = LowestFreeFd]
          /\ fdTable' = fdTable \cup {[fd |-> LowestFreeFd, owner |-> i, file |-> f]}
          /\ Log(i, Ev("open", f, TRUE))
          /\ pc' = [pc EXCEPT ![i] = "fstat"]
          /\ UNCHANGED <<pending, buf, cur>>
       \/ /\ fd' = [fd EXCEPT ![i] = BadFd]
          /\ \E p \in ThrowNew(pending[i], Msg("Open", f)) :
               pending' = [pending EXCEPT ![i] = p]
          /\ Log2(i, Ev("open", f, FALSE), Ev("ThrowNew:Open", f, TRUE))
          /\ MapFileReturn(i, NULL)
          /\ UNCHANGED fdTable
    /\ UNCHANGED <<argVars, utf, st, mret, size, mappings, heap, genVars, result>>

\* lines 47-55: fstat(fd, &st); on failure the function returns with fd open
Fstat(i) ==
    /\ pc[i] = "fstat"
    /\ LET f == cur[i] IN
       \/ /\ st' = [st EXCEPT ![i] = StSize(input[i][f])]
          /\ Log(i, Ev("fstat", f, TRUE))
          /\ pc' = [pc EXCEPT ![i] = "size_check"]
          /\ UNCHANGED <<pending, buf, cur>>
       \/ /\ \E p \in ThrowNew(pending[i], Msg("Stat", f)) :
               pending' = [pending EXCEPT ![i] = p]
          /\ Log2(i, Ev("fstat", f, FALSE), Ev("ThrowNew:Stat", f, TRUE))
          /\ MapFileReturn(i, NULL)
          /\ UNCHANGED st
    /\ UNCHANGED <<argVars, utf, fd, mret, size, osVars, genVars, result>>

\* line 58: static_cast<uint64_t>(st.st_size) > numeric_limits<size_t>::max()
TooLargeNever(s) == FALSE
TooLarge(s) == s > SIZE_MAX

\* lines 58-64: the size check; a file too large is closed and refused
SizeCheck(i) ==
    /\ pc[i] = "size_check"
    /\ LET f == cur[i] IN
       IF TooLarge(st[i])
       THEN /\ \E p \in ThrowNew(pending[i], Msg("SizeCheck", f)) :
                 pending' = [pending EXCEPT ![i] = p]
            /\ fdTable' = Close(fdTable, fd[i])
            /\ \E ok \in BOOLEAN :
                 Log2(i, Ev("ThrowNew:SizeCheck", f, TRUE), Ev("close", f, ok))
            /\ MapFileReturn(i, NULL)
       ELSE /\ pc' = [pc EXCEPT ![i] = "mmap"]
            /\ UNCHANGED <<pending, fdTable, trace, buf, cur>>
    /\ UNCHANGED <<argVars, utf, mapVars, size, mappings, heap, genVars, result>>

\* lines 66-68: *filesize = st.st_size; mmap(...)
Mmap(i) ==
    /\ pc[i] = "mmap"
    /\ LET f == cur[i]
           len == st[i] % (2 ^ SizeBits)
       IN
       /\ size' = [size EXCEPT ![i][f] = len]
       /\ \E ok \in MmapResults(len) :
            /\ Log(i, Ev("mmap", f, ok))
            /\ IF ok
               THEN /\ mret' = [mret EXCEPT ![i] = LowestFreeAddr]
                    /\ mappings' = mappings \cup
                         {[addr |-> LowestFreeAddr, len |-> len, owner |-> i,
                           file |-> f, data |-> input[i][f]]}
                    /\ pc' = [pc EXCEPT ![i] = "close"]
               ELSE /\ mret' = [mret EXCEPT ![i] = NULL]
                    /\ pc' = [pc EXCEPT ![i] = "map_failed"]
                    /\ UNCHANGED mappings
    /\ UNCHANGED <<argVars, utf, cur, fd, st, buf, fdTable, heap, genVars,
                   result, pending>>

\* lines 68-81: mmap failed: close the descriptor, throw for a failed close,
\* then throw for the failed mapping, return nullptr
MapFailed(i) ==
    /\ pc[i] = "map_failed"
    /\ LET f == cur[i] IN
       /\ fdTable' = Close(fdTable, fd[i])
       /\ \/ /\ \E p \in ThrowNew(pending[i], Msg("Map", f)) :
                  pending' = [pending EXCEPT ![i] = p]
             /\ Log2(i, Ev("close", f, TRUE), Ev("ThrowNew:Map", f, TRUE))
          \/ /\ \E p1 \in ThrowNew(pending[i], Msg("CloseAfterMapFailed", f)) :
                  \E p2 \in ThrowNew(p1, Msg("Map", f)) :
                     pending' = [pending EXCEPT ![i] = p2]
             /\ trace' = [trace EXCEPT ![i] =
                  @ \o <<Ev("close", f, FALSE),
                         Ev("ThrowNew:CloseAfterMapFailed", f, TRUE),
                         Ev("ThrowNew:Map", f, TRUE)>>]
       /\ MapFileReturn(i, NULL)
    /\ UNCHANGED <<argVars, utf, mapVars, size, mappings, heap, genVars, result>>

\* lines 83-90: close the descriptor; a failed close returns nullptr with the
\* mapping in place, a successful one returns the mapping
CloseFd(i) ==
    /\ pc[i] = "close"
    /\ LET f == cur[i] IN
       /\ fdTable' = Close(fdTable, fd[i])
       /\ \/ /\ Log(i, Ev("close", f, TRUE))
             /\ MapFileReturn(i, mret[i])
             /\ UNCHANGED pending
          \/ /\ \E p \in ThrowNew(pending[i], Msg("Close", f)) :
                  pending' = [pending EXCEPT ![i] = p]
             /\ Log2(i, Ev("close", f, FALSE), Ev("ThrowNew:Close", f, TRUE))
             /\ MapFileReturn(i, NULL)
    /\ UNCHANGED <<argVars, utf, mapVars, size, mappings, heap, genVars, result>>

(* ---------------- nativeGeneratePatchFile: after the two MapFile calls ---- *)
\* lines 138-139: ReleaseStringUTFChars on both paths
ReleaseStrings(i) ==
    /\ pc[i] = "release_strings"
    /\ utf' = [utf EXCEPT ![i] = [f \in Files |-> "released"]]
    /\ Log2(i, Ev("ReleaseStringUTFChars", "old", TRUE),
               Ev("ReleaseStringUTFChars", "new", TRUE))
    /\ pc' = [pc EXCEPT ![i] = "check_bufs"]
    /\ UNCHANGED <<argVars, cur, mapVars, buf, size, osVars, genVars,
                   result, pending>>

\* only old_buf is tested before GeneratePatch (the test of new_buf is missing)
CheckBufsOnlyOld(i) ==
    /\ pc[i] = "check_bufs"
    /\ IF buf[i]["old"] = NULL
       THEN /\ IF buf[i]["new"] # NULL
               THEN /\ mappings' = Munmap(mappings, buf[i]["new"], size[i]["new"])
                    /\ Log(i, Ev("munmap", "new", TRUE))
               ELSE UNCHANGED <<mappings, trace>>
            /\ result' = [result EXCEPT ![i] = NullResult]
            /\ pc' = [pc EXCEPT ![i] = "done"]
       ELSE /\ pc' = [pc EXCEPT ![i] = "bsdiff"]
            /\ UNCHANGED <<mappings, trace, result>>
    /\ UNCHANGED <<argVars, utf, cur, mapVars, buf, size, fdTable, heap,
                   genVars, pending>>

\* the other buffer is unmapped without testing it for null
CheckBufsUnguarded(i) ==
    /\ pc[i] = "check_bufs"
    /\ IF buf[i]["old"] = NULL
       THEN /\ mappings' = Munmap(mappings, buf[i]["new"], size[i]["new"])
            /\ Log(i, Ev("munmap", "new", TRUE))
            /\ result' = [result EXCEPT ![i] = NullResult]
            /\ pc' = [pc EXCEPT ![i] = "done"]
       ELSE IF buf[i]["new"] = NULL
       THEN /\ mappings' = Munmap(mappings, buf[i]["old"], size[i]["old"])
            /\ Log(i, Ev("munmap", "old", TRUE))
            /\ result' = [result EXCEPT ![i] = NullResult]
            /\ pc' = [pc EXCEPT ![i] = "done"]
       ELSE /\ pc' = [pc EXCEPT ![i] = "bsdiff"]
            /\ UNCHANGED <<mappings, trace, result>>
    /\ UNCHANGED <<argVars, utf, cur, mapVars, buf, size, fdTable, heap,
                   genVars, pending>>
\* lines 141-152: when a buffer is null, unmap the other one if it is not
\* null and return nullptr; else go on to GeneratePatch
CheckBufs(i) ==
    /\ pc[i] = "check_bufs"
    /\ IF buf[i]["old"] = NULL
       THEN /\ IF buf[i]["new"] # NULL
               THEN /\ mappings' = Munmap(mappings, buf[i]["new"], size[i]["new"])
                    /\ Log(i, Ev("munmap", "new", TRUE))
               ELSE UNCHANGED <<mappings, trace>>
            /\ result' = [result EXCEPT ![i] = NullResult]
            /\ pc' = [pc EXCEPT ![i] = "done"]
       ELSE IF buf[i]["new"] = NULL
       THEN /\ mappings' = Munmap(mappings, buf[i]["old"], size[i]["old"])
            /\ Log(i, Ev("munmap", "old", TRUE))
            /\ result' = [result EXCEPT ![i] = NullResult]
            /\ pc' = [pc EXCEPT ![i] = "done"]
       ELSE /\ pc' = [pc EXCEPT ![i] = "bsdiff"]
            /\ UNCHANGED <<mappings, trace, result>>
    /\ UNCHANGED <<argVars, utf, cur, mapVars, buf, size, fdTable, heap,
                   genVars, pending>>

(* ---------------- GeneratePatch ---------------- *)
\* lines 95-102: bsdiff::bsdiff(old_buf, old_size, new_buf, new_size, 16, ...)
\* reads both buffers and writes the patch vector; it returns 0, or non-zero
\* after writing some part of the patch
Bsdiff(i) ==
    /\ pc[i] = "bsdiff"
    /\ LET o == ReadBuf(buf[i]["old"], size[i]["old"])
           n == ReadBuf(buf[i]["new"], size[i]["new"])
       IN
       /\ encArgs' = [encArgs EXCEPT ![i] =
              EncArgs(o, size[i]["old"], n, size[i]["new"], MinLength)]
       /\ \/ /\ rv' = [rv EXCEPT ![i] = 0]
             /\ patch' = [patch EXCEPT ![i] = BsdiffOutput(o, n)]
             /\ Log(i, Ev("bsdiff", "-", TRUE))
          \/ /\ rv' = [rv EXCEPT ![i] = 1]
             /\ \E part \in Prefixes(BsdiffOutput(o, n)) :
                  patch' = [patch EXCEPT ![i] = part]
             /\ Log(i, Ev("bsdiff", "-", FALSE))
    /\ pc' = [pc EXCEPT ![i] = "gen_result"]
    /\ UNCHANGED <<argVars, utf, cur, mapVars, buf, size, osVars, result, pending>>

\* lines 104-114: what GeneratePatch returns for return value r and patch p
GeneratePatchAlways(r, p) == ByteArray(p)
GeneratePatchValue(r, p) == IF r # 0 THEN NullResult ELSE ByteArray(p)

\* lines 104-114: throw on a non-zero return value, else copy the patch into
\* a new byte array
GenResult(i) ==
    /\ pc[i] = "gen_result"
    /\ result' = [result EXCEPT ![i] = GeneratePatchValue(rv[i], patch[i])]
    /\ IF rv[i] # 0
       THEN /\ \E p \in ThrowNew(pending[i], Msg("AlgorithmFailure", "-")) :
                 pending' = [pending EXCEPT ![i] = p]
            /\ Log(i, Ev("ThrowNew:AlgorithmFailure", "-", TRUE))
       ELSE /\ Log(i, Ev("NewByteArray", "-", TRUE))
            /\ UNCHANGED pending
    /\ pc' = [pc EXCEPT ![i] = IF entry[i] = "File" THEN "munmap_old" ELSE "data_return"]
    /\ UNCHANGED <<argVars, utf, cur, mapVars, buf, size, osVars, genVars>>

(* ---------------- nativeGeneratePatchFile: release and return ---------- *)
\* line 156: munmap(old_buf, old_size)
MunmapOld(i) ==
    /\ pc[i] = "munmap_old"
    /\ mappings' = Munmap(mappings, buf[i]["old"], size[i]["old"])
    /\ Log(i, Ev("munmap", "old", TRUE))
    /\ pc' = [pc EXCEPT ![i] = "munmap_new"]
    /\ UNCHANGED <<argVars, utf, cur, mapVars, buf, size, fdTable, heap,
                   genVars, result, pending>>

\* lines 157-159: munmap(new_buf, new_size); return result
MunmapNew(i) ==
    /\ pc[i] = "munmap_new"
    /\ mappings' = Munmap(mappings, buf[i]["new"], size[i]["new"])
    /\ Log(i, Ev("munmap", "new", TRUE))
    /\ pc' = [pc EXCEPT ![i] = "done"]
    /\ UNCHANGED <<argVars, utf, cur, mapVars, buf, size, fdTable, heap,
                   genVars, result, pending>>

(* ---------------- nativeGeneratePatchData ---------------- *)
\* lines 166-175: allocate two buffers of the arrays' lengths and copy the
\* arrays into them
DataAcquire(i) ==
    /\ pc[i] = "start"
    /\ entry[i] = "Data"
    /\ LET a1 == LowestFreeAddr
           a2 == CHOOSE a \in 1..(2 + Cardinality(usedAddrs)) :
                    /\ a \notin usedAddrs \cup {a1}
                    /\ \A k \in 1..(a - 1) : k \in usedAddrs \cup {a1}
       IN
       /\ heap' = heap \cup
            {[addr |-> a1, owner |-> i, file |-> "old", data |-> input[i]["old"]],
             [addr |-> a2, owner |-> i, file |-> "new", data |-> input[i]["new"]]}
       /\ buf' = [buf EXCEPT ![i] = [old |-> a1, new |-> a2]]
    /\ size' = [size EXCEPT ![i] = [f \in Files |-> Len(input[i][f])]]
    /\ Log2(i, Ev("make_unique", "old", TRUE), Ev("make_unique", "new", TRUE))
    /\ pc' = [pc EXCEPT ![i] = "bsdiff"]
    /\ UNCHANGED <<argVars, utf, cur, mapVars, fdTable, mappings, genVars,
                   result, pending>>

\* lines 177-178: return; the two unique_ptr buffers are freed
DataReturn(i) ==
    /\ pc[i] = "data_return"
    /\ heap' = {h \in heap : h.owner # i}
    /\ Log2(i, Ev("delete[]", "new", TRUE), Ev("delete[]", "old", TRUE))
    /\ pc' = [pc EXCEPT ![i] = "done"]
    /\ UNCHANGED <<argVars, utf, cur, mapVars, buf, size, fdTable, mappings,
                   genVars, result, pending>>

(* ---------------- specification ---------------- *)
Step(i) ==
    \/ GetStringUTFChars(i)
    \/ CheckArgs(i)
    \/ Open(i)
    \/ Fstat(i)
    \/ SizeCheck(i)
    \/ Mmap(i)
    \/ MapFailed(i)
    \/ CloseFd(i)
    \/ ReleaseStrings(i)
    \/ CheckBufs(i)
    \/ Bsdiff(i)
    \/ GenResult(i)
    \/ MunmapOld(i)
    \/ MunmapNew(i)
    \/ DataAcquire(i)
    \/ DataReturn(i)

Next == \E i \in Invs : Step(i)

Spec == Init /\ [][Next]_vars

(* ---------------- vocabulary of the properties ---------------- *)
Returned(i) == pc[i] = "done"
FileCall(i) == entry[i] = "File" /\ pc[i] # "idle"
Other(f) == IF f = "old" THEN "new" ELSE "old"

HasEv(i, e) == \E k \in 1..Len(trace[i]) : trace[i][k] = e
Called(i, op, f) == \E k \in 1..Len(trace[i]) :
                        trace[i][k].op = op /\ trace[i][k].file = f
CalledOp(i, op) == \E k \in 1..Len(trace[i]) : trace[i][k].op = op

OwnedFds(i) == {e \in fdTable : e.owner = i}
OwnedMaps(i) == {m \in mappings : m.owner = i}
FdsOf(i, f) == {e \in fdTable : e.owner = i /\ e.file = f}
MapsOf(i, f) == {m \in mappings : m.owner = i /\ m.file = f}

IsThrow(e) == e.op \in {"ThrowNew:ArgumentMissing", "ThrowNew:Open",
                        "ThrowNew:Stat", "ThrowNew:SizeCheck", "ThrowNew:Map",
                        "ThrowNew:CloseAfterMapFailed", "ThrowNew:Close",
                        "ThrowNew:AlgorithmFailure"}
\* the ThrowNew calls thread i made, in order
Throws(i) == SelectSeq(trace[i], IsThrow)
\* the ThrowNew calls MapFile made for file f
ThrowsFor(i, f) == SelectSeq(trace[i], LAMBDA e : IsThrow(e) /\ e.file = f)

IsSyscall(e) == e.op \in {"open", "fstat", "mmap", "close", "munmap"}

\* MapFile for file f has returned to nativeGeneratePatchFile
MapFileReturned(i, f) ==
    /\ FileCall(i)
    /\ Called(i, "open", f)
    /\ IF f = "old" THEN cur[i] = "new"
       ELSE pc[i] \in {"release_strings", "check_bufs", "bsdiff", "gen_result",
                       "munmap_old", "munmap_new", "done"}

(* ---------------- C1 ---------------- *)
\* C1: when nativeGeneratePatchFile has returned, on whatever path, the
\* invocation owns no open descriptor and no live mapping.
C1_AllReleasedAtReturn ==
    \A i \in Invs : (FileCall(i) /\ Returned(i)) =>
        Cardinality(OwnedFds(i)) + Cardinality(OwnedMaps(i)) = 0

(* ---------------- C2 ---------------- *)
\* some open() failed and every other system call the invocation made succeeded
OnlyOpenFailed(i) ==
    /\ \E f \in Files : HasEv(i, Ev("open", f, FALSE))
    /\ \A k \in 1..Len(trace[i]) :
          (IsSyscall(trace[i][k]) /\ trace[i][k].op # "open") => trace[i][k].ok

\* C2: when the only failing system calls of an invocation are open() calls
\* (old path, new path or both unreadable), the invocation owns no descriptor
\* and no mapping once nativeGeneratePatchFile has returned.
C2_OpenFailureLeavesNothing ==
    \A i \in Invs : (FileCall(i) /\ Returned(i) /\ OnlyOpenFailed(i)) =>
        /\ OwnedFds(i) = {}
        /\ OwnedMaps(i) = {}
        /\ result[i] = NullResult

\* the old path is unreadable, the new file was opened, mapped, closed and then
\* unmapped again
C2_Witness ==
    /\ Returned(1) /\ FileCall(1) /\ OnlyOpenFailed(1)
    /\ HasEv(1, Ev("open", "old", FALSE))
    /\ HasEv(1, Ev("mmap", "new", TRUE))
    /\ HasEv(1, Ev("close", "new", TRUE))
    /\ HasEv(1, Ev("munmap", "new", TRUE))

(* ---------------- C3 ---------------- *)
\* C3: when exactly one of the two MapFile calls returned nullptr, the mapping
\* of the other file has been unmapped when the call returns nullptr, and
\* bsdiff was not called.
C3_OtherMappingReleased ==
    \A i \in Invs : \A f \in Files :
        (/\ FileCall(i) /\ Returned(i)
         /\ MapFileReturned(i, "old") /\ MapFileReturned(i, "new")
         /\ buf[i][f] # NULL /\ buf[i][Other(f)] = NULL) =>
            /\ MapsOf(i, f) = {}
            /\ HasEv(i, Ev("munmap", f, TRUE))
            /\ ~encArgs[i].called
            /\ ~CalledOp(i, "bsdiff")
            /\ result[i] = NullResult

\* the old file was mapped, the new one failed, the call has returned
C3_Witness ==
    /\ Returned(1) /\ FileCall(1)
    /\ buf[1]["old"] # NULL /\ buf[1]["new"] = NULL
    /\ HasEv(1, Ev("mmap", "old", TRUE))
    /\ HasEv(1, Ev("open", "new", TRUE))

(* ---------------- C4 ---------------- *)
\* C4: when bsdiff was called in nativeGeneratePatchFile and the call has
\* returned, both mappings are unmapped, for a zero and for a non-zero return
\* value of bsdiff.
C4_BothUnmappedAfterEncode ==
    \A i \in Invs : (FileCall(i) /\ Returned(i) /\ encArgs[i].called) =>
        /\ OwnedMaps(i) = {}
        /\ HasEv(i, Ev("munmap", "old", TRUE))
        /\ HasEv(i, Ev("munmap", "new", TRUE))

\* the encoder failed and the call has returned
C4_Witness ==
    /\ Returned(1) /\ FileCall(1) /\ encArgs[1].called /\ rv[1] # 0

(* ---------------- C5 ---------------- *)
\* C5: when fstat failed in MapFile, the descriptor MapFile opened for that
\* file is closed when MapFile has returned.
C5_FstatFailureClosesFd ==
    \A i \in Invs : \A f \in Files :
        (MapFileReturned(i, f) /\ HasEv(i, Ev("fstat", f, FALSE))) =>
            FdsOf(i, f) = {}

(* ---------------- C6 ---------------- *)
\* C6: when the size of file f exceeds SIZE_MAX, MapFile returns nullptr after
\* throwing the "File too large" error and nothing else, the descriptor is
\* closed, and mmap was not called for f (no mapping exists).
C6_TooLargeRefused ==
    \A i \in Invs : \A f \in Files :
        (/\ MapFileReturned(i, f)
         /\ HasEv(i, Ev("fstat", f, TRUE))
         /\ StSize(input[i][f]) > SIZE_MAX) =>
            /\ buf[i][f] = NULL
            /\ ThrowsFor(i, f) = <<Ev("ThrowNew:SizeCheck", f, TRUE)>>
            /\ (Len(Throws(i)) = 1 => pending[i] = Msg("SizeCheck", f))
            /\ FdsOf(i, f) = {}
            /\ Called(i, "close", f)
            /\ ~Called(i, "mmap", f)
            /\ MapsOf(i, f) = {}

\* the old file is too large and MapFile has returned for it
C6_Witness ==
    /\ MapFileReturned(1, "old")
    /\ HasEv(1, Ev("fstat", "old", TRUE))
    /\ input[1]["old"] = Huge
    /\ pending[1] = Msg("SizeCheck", "old")

(* ---------------- C7 ---------------- *)
\* C7: when MapFile was entered with no exception pending, mmap failed and the
\* cleanup close failed too, the pending error is the "Unable to close file
\* after map failed" error; when mmap failed and the close succeeded it is the
\* "Mapping the file has failed" error.
C7_CloseErrorSurfaces ==
    \A i \in Invs : \A f \in Files :
        /\ Throws(i) = <<Ev("ThrowNew:CloseAfterMapFailed", f, TRUE),
                         Ev("ThrowNew:Map", f, TRUE)>>
              => pending[i] = Msg("CloseAfterMapFailed", f)
        /\ Throws(i) = <<Ev("ThrowNew:Map", f, TRUE)>>
              => pending[i] = Msg("Map", f)

(* ---------------- C8 ---------------- *)
\* C8: when MapFile failed for the old file, the error pending when
\* nativeGeneratePatchFile returns is one about the old file, also when
\* MapFile failed for the new file afterwards.
C8_OldErrorPropagates ==
    \A i \in Invs :
        (/\ FileCall(i) /\ Returned(i)
         /\ MapFileReturned(i, "old") /\ buf[i]["old"] = NULL) =>
            pending[i].file = "old"

(* ---------------- C9 ---------------- *)
\* GeneratePatch has returned in thread i
GeneratePatchReturned(i) ==
    encArgs[i].called /\ pc[i] \in {"munmap_old", "munmap_new", "data_return", "done"}

\* C9: when bsdiff returned non-zero, GeneratePatch returns nullptr with the
\* "BsDiff has failed" error pending; no byte array was created, whatever the
\* patch vector holds.
C9_EncoderFailureNoOutput ==
    \A i \in Invs : (GeneratePatchReturned(i) /\ rv[i] # 0) =>
        /\ result[i] = NullResult
        /\ pending[i] = Msg("AlgorithmFailure", "-")
        /\ ~CalledOp(i, "NewByteArray")

\* bsdiff failed after writing part of the patch
C9_Witness ==
    /\ GeneratePatchReturned(1) /\ rv[1] # 0 /\ Len(patch[1]) > 0

(* ---------------- C10 ---------------- *)
ArgMissing(i) == utf[i]["old"] = "null" \/ utf[i]["new"] = "null"

\* C10: when GetStringUTFChars returned nullptr for a path, the invocation
\* never calls open, fstat, mmap or bsdiff and owns no descriptor or mapping;
\* it returns nullptr with the "Unable to retrieve one of the diff files"
\* error pending.
C10_ArgumentMissingFirst ==
    \A i \in Invs : (FileCall(i) /\ ArgMissing(i)) =>
        /\ pc[i] \in {"check_args", "done"}
        /\ \A op \in {"open", "fstat", "mmap", "bsdiff"} : ~CalledOp(i, op)
        /\ OwnedFds(i) = {} /\ OwnedMaps(i) = {}
        /\ Returned(i) => /\ result[i] = NullResult
                          /\ pending[i] = Msg("ArgumentMissing", "-")

\* only the new path is missing and the call has returned
C10_Witness ==
    /\ FileCall(1) /\ Returned(1)
    /\ utf[1]["old"] = "held" /\ utf[1]["new"] = "null"

(* ---------------- C11 ---------------- *)
\* every call thread i made on file f succeeded
AllOkFor(i, f) ==
    \A k \in 1..Len(trace[i]) : trace[i][k].file = f => trace[i][k].ok

\* C11: nativeGeneratePatchFile on a readable zero-length old file and a
\* readable non-empty new file returns a patch: when open and fstat succeed on
\* the old file, every call on the new file succeeds and bsdiff does not fail,
\* bsdiff is called and a byte array is returned.
C11_EmptyOldFileSucceeds ==
    \A i \in Invs :
        (/\ FileCall(i) /\ Returned(i) /\ ~ArgMissing(i)
         /\ input[i]["old"] = <<>>
         /\ input[i]["new"] \in SmallContents /\ Len(input[i]["new"]) > 0
         /\ HasEv(i, Ev("open", "old", TRUE))
         /\ HasEv(i, Ev("fstat", "old", TRUE))
         /\ AllOkFor(i, "new")
         /\ ~HasEv(i, Ev("bsdiff", "-", FALSE))) =>
            /\ encArgs[i].called
            /\ result[i].kind = "bytes"

(* ---------------- C12 ---------------- *)
\* thread 1 calls nativeGeneratePatchFile on two files, thread 2 calls
\* nativeGeneratePatchData on two arrays with the same contents
InitPair ==
    /\ InitFor({1, 2})
    /\ entry[1] = "File" /\ entry[2] = "Data"
    /\ input[1] = input[2]

SpecPair == InitPair /\ [][Next]_vars

\* open, fstat and close never failed in thread i, and mmap failed for no
\* file that has at least one byte
FileCallsSucceeded(i) ==
    \A k \in 1..Len(trace[i]) :
        LET e == trace[i][k] IN
        /\ e.op \in {"GetStringUTFChars", "open", "fstat", "close"} => e.ok
        /\ (e.op = "mmap" /\ Len(input[i][e.file]) > 0) => e.ok

\* C12: for the same contents (empty ones included) the two entry points call
\* bsdiff with the same bytes, the same sizes and min_length 16, and return
\* the same result when bsdiff returns the same value.
C12_EntryPointsEquivalent ==
    \A i \in Invs : \A j \in Invs :
        (/\ entry[i] = "File" /\ entry[j] = "Data"
         /\ Returned(i) /\ Returned(j)
         /\ input[i] = input[j]
         /\ FileCallsSucceeded(i)) =>
            /\ encArgs[i].called /\ encArgs[j].called
            /\ encArgs[i] = encArgs[j]
            /\ encArgs[i].min_length = 16
            /\ (rv[i] = rv[j] => result[i] = result[j])

\* the same claim for contents of at least one byte each
C12_NonEmptyEquivalent ==
    \A i \in Invs : \A j \in Invs :
        (/\ entry[i] = "File" /\ entry[j] = "Data"
         /\ Returned(i) /\ Returned(j)
         /\ input[i] = input[j]
         /\ \A f \in Files : Len(input[i][f]) > 0
         /\ FileCallsSucceeded(i)) =>
            /\ encArgs[i].called /\ encArgs[j].called
            /\ encArgs[i] = encArgs[j]
            /\ encArgs[i].min_length = 16
            /\ (rv[i] = rv[j] => result[i] = result[j])

(* ---------------- C13 ---------------- *)
\* the contents thread i works on when threads run concurrently
ConcInput(i) == [old |-> <<i % 2>>, new |-> <<(i + 1) % 2>>]

\* thread 1 alone, thread 2 alone, or both concurrently, each on its own
\* entry point and contents
InitConc ==
    \E active \in {{1}, {2}, {1, 2}} :
        \E e \in [active -> {"File", "Data"}] :
            InitWith(active, e, [i \in active |-> ConcInput(i)])

SpecConc == InitConc /\ [][Next]_vars

OwnedHeap(i) == {h \in heap : h.owner = i}
\* what changes exactly when thread i takes a step
Local(i) == <<pc[i], cur[i], trace[i]>>

\* MapFile returned a mapping for f, going by the results of its calls
AcquiredOk(i, f) ==
    HasEv(i, Ev("mmap", f, TRUE)) /\ HasEv(i, Ev("close", f, TRUE))

\* the value an invocation returns, as a function of its own input and of the
\* results of its own calls only
OutcomeAlone(i) ==
    IF entry[i] = "File" /\ ~(AcquiredOk(i, "old") /\ AcquiredOk(i, "new"))
    THEN NullResult
    ELSE IF HasEv(i, Ev("bsdiff", "-", TRUE))
    THEN ByteArray(BsdiffOutput(input[i]["old"], input[i]["new"]))
    ELSE NullResult

\* bsdiff read the bytes of the invocation's own input, and the invocation
\* returns what its own calls' results determine
C13_OwnOutcome ==
    \A i \in Invs :
        /\ encArgs[i].called =>
              encArgs[i] = EncArgs(input[i]["old"], Len(input[i]["old"]),
                                   input[i]["new"], Len(input[i]["new"]), MinLength)
        /\ Returned(i) =>
              /\ result[i] = OutcomeAlone(i)
              /\ (result[i] = NullResult) = (pending[i] # NoException)

\* a step of another thread leaves thread i's descriptors, mappings and
\* buffers in place
C13_NoCrossRelease ==
    \A i \in Invs :
        Local(i)' = Local(i) =>
            /\ OwnedFds(i) \subseteq fdTable'
            /\ OwnedMaps(i) \subseteq mappings'
            /\ OwnedHeap(i) \subseteq heap'

\* C13: concurrent invocations are independent: no step of one thread closes
\* a descriptor, unmaps a region or frees a buffer another thread acquired;
\* bsdiff reads only the invocation's own buffers; and the value an invocation
\* returns is the one its own input and call results give when it runs alone.
C13_Independent == []C13_OwnOutcome /\ [][C13_NoCrossRelease]_vars

\* both threads hold their two mappings at once, about to run bsdiff
C13_Witness ==
    /\ entry[1] = "File" /\ entry[2] = "File"
    /\ pc[1] = "bsdiff" /\ pc[2] = "bsdiff"
    /\ Cardinality(OwnedMaps(1)) = 2 /\ Cardinality(OwnedMaps(2)) = 2

(* ---------------- C14 ---------------- *)
\* a calling thread keeps running: every system call, JNI call and the
\* encoder return, so each thread's next step is eventually taken
SpecLive == Init /\ [][Next]_vars /\ \A i \in Invs : WF_vars(Step(i))

\* no call is made twice on the same file, and a returned invocation has
\* returned a byte array (Done) or nullptr (Failed)
C14_NoRetry ==
    \A i \in Invs :
        /\ \A k1 \in 1..Len(trace[i]) : \A k2 \in 1..Len(trace[i]) :
              (k1 # k2) => ~(/\ trace[i][k1].op = trace[i][k2].op
                             /\ trace[i][k1].file = trace[i][k2].file)
        /\ Returned(i) => result[i].kind \in {"bytes", "null"}

\* C14: every invocation of either entry point eventually returns, whatever
\* the system calls and the encoder return, and it makes no call twice.
C14_Terminates ==
    /\ <>(\A i \in Invs : pc[i] \in {"idle", "done"})
    /\ []C14_NoRetry

\* an invocation that has returned after fstat failed on the old file and
\* mmap failed on the new one
C14_Witness ==
    /\ Returned(1) /\ FileCall(1)
    /\ HasEv(1, Ev("fstat", "old", FALSE))
    /\ HasEv(1, Ev("mmap", "new", FALSE))

(* ---------------- C15 ---------------- *)
\* position of the first / last call `op` on file f in thread i's trace
\* (0 when there is none)
FirstIdx(i, op, f) ==
    IF Called(i, op, f)
    THEN CHOOSE k \in 1..Len(trace[i]) :
            /\ trace[i][k].op = op /\ trace[i][k].file = f
            /\ \A j \in 1..(k - 1) : ~(trace[i][j].op = op /\ trace[i][j].file = f)
    ELSE 0

IsAcquire(e) == e.op \in {"open", "fstat", "mmap", "close"}
IsRelease(e) == e.op \in {"ReleaseStringUTFChars", "munmap"}
Count(i, P(_)) == Len(SelectSeq(trace[i], P))

\* C15: an invocation of nativeGeneratePatchFile goes through Start,
\* Acquiring, Encoding, Releasing in this order: bsdiff is called at most once
\* and only after both MapFile calls succeeded, every acquiring call precedes
\* it, every munmap follows it, and no invocation returns (Done or Failed)
\* without a releasing call, the argument-missing return included.
C15_PhaseOrder ==
    \A i \in Invs : FileCall(i) =>
        LET b == FirstIdx(i, "bsdiff", "-") IN
        /\ Count(i, LAMBDA e : e.op = "bsdiff") <= 1
        /\ b # 0 =>
              /\ AcquiredOk(i, "old") /\ AcquiredOk(i, "new")
              /\ \A k \in 1..Len(trace[i]) :
                    /\ IsAcquire(trace[i][k]) => k < b
                    /\ trace[i][k].op = "munmap" => k > b
        /\ Returned(i) => Count(i, IsRelease) > 0

(* ---------------- C16 ---------------- *)
\* the mapping behind old_buf / new_buf is live, with the size fstat reported
LiveBuffer(i, f) ==
    /\ buf[i][f] # NULL
    /\ HasEv(i, Ev("fstat", f, TRUE))
    /\ size[i][f] = StSize(input[i][f])
    /\ \E m \in MapsOf(i, f) : m.addr = buf[i][f] /\ m.len = size[i][f]

\* C16: while bsdiff runs in nativeGeneratePatchFile (from the call to the
\* return of GeneratePatch) both mappings are live and the sizes passed are the
\* sizes fstat reported; what bsdiff read are the files' bytes.
C16_EncoderBuffersLive ==
    \A i \in Invs : FileCall(i) =>
        /\ pc[i] \in {"bsdiff", "gen_result"} =>
              LiveBuffer(i, "old") /\ LiveBuffer(i, "new")
        /\ encArgs[i].called =>
              /\ encArgs[i].old = input[i]["old"]
              /\ encArgs[i].new = input[i]["new"]
              /\ encArgs[i].old_size = StSize(input[i]["old"])
              /\ encArgs[i].new_size = StSize(input[i]["new"])

\* bsdiff is about to run on two mapped files of different sizes
C16_Witness ==
    /\ FileCall(1) /\ pc[1] = "bsdiff"
    /\ size[1]["old"] = 1 /\ size[1]["new"] = 2

(* ---------------- C17 ---------------- *)
\* C17: in nativeGeneratePatchFile munmap is called at most once per file,
\* only for a buffer MapFile returned non-null, with the size MapFile stored,
\* and it removes that mapping; close is called at most once per file and
\* only on a descriptor that open returned.
C17_ReleasedOnce ==
    \A i \in Invs : \A f \in Files : FileCall(i) =>
        /\ Count(i, LAMBDA e : e.op = "munmap" /\ e.file = f) <= 1
        /\ Count(i, LAMBDA e : e.op = "close" /\ e.file = f) <= 1
        /\ Called(i, "munmap", f) =>
              /\ buf[i][f] # NULL
              /\ AcquiredOk(i, f)
              /\ size[i][f] = StSize(input[i][f])
              /\ MapsOf(i, f) = {}
        /\ Called(i, "close", f) =>
              /\ HasEv(i, Ev("open", f, TRUE))
              /\ FirstIdx(i, "open", f) < FirstIdx(i, "close", f)
              /\ FdsOf(i, f) = {}

\* both mappings, of different sizes, were unmapped after a successful encode
C17_Witness ==
    /\ FileCall(1) /\ Returned(1) /\ result[1].kind = "bytes"
    /\ Len(input[1]["old"]) # Len(input[1]["new"])
    /\ Called(1, "munmap", "old") /\ Called(1, "munmap", "new")

(* ---------------- C18 ---------------- *)
\* C18: once both paths were retrieved, MapFile is called for the new file
\* after MapFile for the old file has returned, also when that one failed; no
\* release or return happens before both calls are over; afterwards only a
\* buffer that MapFile returned non-null is unmapped.
C18_BothAcquisitionsAttempted ==
    \A i \in Invs : (FileCall(i) /\ ~ArgMissing(i)) =>
        /\ (Returned(i) \/ Count(i, IsRelease) > 0) =>
              /\ Called(i, "open", "old") /\ Called(i, "open", "new")
              /\ MapFileReturned(i, "new")
        /\ Called(i, "open", "new") =>
              /\ MapFileReturned(i, "old")
              /\ \A k \in 1..Len(trace[i]) :
                    (trace[i][k].file = "old" /\ IsAcquire(trace[i][k]))
                        => k < FirstIdx(i, "open", "new")
        /\ \A f \in Files : Called(i, "munmap", f) => buf[i][f] # NULL

\* MapFile failed for the old file; the new file was still opened and mapped,
\* then unmapped before the return
C18_Witness ==
    /\ FileCall(1) /\ Returned(1)
    /\ HasEv(1, Ev("open", "old", FALSE))
    /\ HasEv(1, Ev("mmap", "new", TRUE))
    /\ HasEv(1, Ev("munmap", "new", TRUE))
    /\ buf[1]["old"] = NULL

\* the phase order for the invocations in which both paths were retrieved
C15_PhaseOrderWithArguments ==
    \A i \in Invs : (FileCall(i) /\ ~ArgMissing(i)) =>
        LET b == FirstIdx(i, "bsdiff", "-") IN
        /\ Count(i, LAMBDA e : e.op = "bsdiff") <= 1
        /\ b # 0 =>
              /\ AcquiredOk(i, "old") /\ AcquiredOk(i, "new")
              /\ \A k \in 1..Len(trace[i]) :
                    /\ IsAcquire(trace[i][k]) => k < b
                    /\ trace[i][k].op = "munmap" => k > b
        /\ Returned(i) => Count(i, IsRelease) > 0

(* ---------------- C19 ---------------- *)
\* the returned value and the pending exception agree, and a byte array is
\* returned exactly when every acquisition succeeded and bsdiff returned 0
ResultAgreesWithError(i) ==
    /\ (result[i] = NullResult) = (pending[i] # NoException)
    /\ (result[i].kind = "bytes") =
          (/\ entry[i] = "File" => (AcquiredOk(i, "old") /\ AcquiredOk(i, "new"))
           /\ HasEv(i, Ev("bsdiff", "-", TRUE)))
    /\ result[i].kind = "bytes" => Throws(i) = <<>>

\* C19: at return of either entry point the result is null exactly when an
\* exception is pending, a patch is returned exactly when all acquisitions
\* succeeded and bsdiff returned 0, then with no error raised; and no
\* invocation raises more than one error.
C19_ResultMatchesError ==
    \A i \in Invs :
        /\ Returned(i) => ResultAgreesWithError(i)
        /\ Len(Throws(i)) <= 1

\* the agreement of result and pending exception alone
C19_ResultAgreement ==
    \A i \in Invs : Returned(i) => ResultAgreesWithError(i)

(* ---------------- C20 ---------------- *)
\* C20: when nativeGeneratePatchFile has returned, every path buffer that
\* GetStringUTFChars returned was released with ReleaseStringUTFChars exactly
\* once, also when the other path was missing; and no path buffer is released
\* before both MapFile calls are over.
C20_PathStringsReleased ==
    \A i \in Invs : FileCall(i) =>
        /\ \A f \in Files :
              /\ Count(i, LAMBDA e : e.op = "ReleaseStringUTFChars" /\ e.file = f) <= 1
              /\ (Returned(i) /\ HasEv(i, Ev("GetStringUTFChars", f, TRUE))) =>
                    /\ HasEv(i, Ev("ReleaseStringUTFChars", f, TRUE))
                    /\ utf[i][f] = "released"
        /\ CalledOp(i, "ReleaseStringUTFChars") =>
              /\ MapFileReturned(i, "old") /\ MapFileReturned(i, "new")
              /\ \A k \in 1..Len(trace[i]) : IsAcquire(trace[i][k]) =>
                    k < FirstIdx(i, "ReleaseStringUTFChars", "old")

\* the same for the invocations in which both paths were retrieved
C20_ReleasedWhenBothRetrieved ==
    \A i \in Invs : (FileCall(i) /\ ~ArgMissing(i)) =>
        /\ \A f \in Files :
              /\ Count(i, LAMBDA e : e.op = "ReleaseStringUTFChars" /\ e.file = f) <= 1
              /\ (Returned(i) /\ HasEv(i, Ev("GetStringUTFChars", f, TRUE))) =>
                    /\ HasEv(i, Ev("ReleaseStringUTFChars", f, TRUE))
                    /\ utf[i][f] = "released"
        /\ CalledOp(i, "ReleaseStringUTFChars") =>
              /\ MapFileReturned(i, "old") /\ MapFileReturned(i, "new")
              /\ \A k \in 1..Len(trace[i]) : IsAcquire(trace[i][k]) =>
                    k < FirstIdx(i, "ReleaseStringUTFChars", "old")

====
